---- MODULE Spec2Model ----
(***************************************************************************)
(* Model of the PR diagnosis engine of                                     *)
(* .codex/skills/gh-fix-ci/scripts/inspect_pr_checks.py:                   *)
(* check classification (is_failing), the review reducer                   *)
(* (analyze_reviews), the log-retrieval fallback (fetch_check_log), the    *)
(* failure-snippet extraction (extract_failure_snippet) and the            *)
(* orchestration in main.                                                  *)
(*                                                                         *)
(* Python values are represented as follows.                               *)
(*   str            a TLA+ string                                          *)
(*   None | str     <<>> for None, <<s>> for the string s                  *)
(*   dict           a function from the keys that are present to values    *)
(*   list           a sequence                                             *)
(***************************************************************************)
EXTENDS Integers, Sequences, FiniteSets, TLC

(***************************************************************************)
(* Strings                                                                 *)
(***************************************************************************)

\* Python None and a present value, for d.get(key).
None == <<>>
Some(v) == <<v>>

\* d.get(key): None when the key is absent (a JSON null is stored as None).
Get(d, key) == IF key \in DOMAIN d THEN d[key] ELSE None

\* Python truthiness of an optional string: None and "" are falsy.
Truthy(opt) == opt # None /\ opt[1] # ""

\* Python `a or b` on optional strings.
PyOr(a, b) == IF Truthy(a) THEN a ELSE b

\* `opt or ""`: the string itself, "" for None.
OrEmpty(opt) == IF opt = None THEN "" ELSE opt[1]

\* str.lower() on one character.
LowerChar(c) ==
  CASE c = "A" -> "a" [] c = "B" -> "b" [] c = "C" -> "c" [] c = "D" -> "d"
    [] c = "E" -> "e" [] c = "F" -> "f" [] c = "G" -> "g" [] c = "H" -> "h"
    [] c = "I" -> "i" [] c = "J" -> "j" [] c = "K" -> "k" [] c = "L" -> "l"
    [] c = "M" -> "m" [] c = "N" -> "n" [] c = "O" -> "o" [] c = "P" -> "p"
    [] c = "Q" -> "q" [] c = "R" -> "r" [] c = "S" -> "s" [] c = "T" -> "t"
    [] c = "U" -> "u" [] c = "V" -> "v" [] c = "W" -> "w" [] c = "X" -> "x"
    [] c = "Y" -> "y" [] c = "Z" -> "z" [] OTHER -> c

\* str.lower()
RECURSIVE Lower(_)
Lower(s) ==
  IF s = "" THEN ""
  ELSE LowerChar(SubSeq(s, 1, 1)) \o Lower(SubSeq(s, 2, Len(s)))

\* The characters str.strip() and str.split() treat as whitespace.
IsSpace(c) == c \in {" ", "\t", "\n", "\r"}

\* str.lstrip()
RECURSIVE LStrip(_)
LStrip(s) ==
  IF s = "" THEN ""
  ELSE IF IsSpace(SubSeq(s, 1, 1)) THEN LStrip(SubSeq(s, 2, Len(s)))
  ELSE s

\* str.rstrip()
RECURSIVE RStrip(_)
RStrip(s) ==
  IF s = "" THEN ""
  ELSE IF IsSpace(SubSeq(s, Len(s), Len(s))) THEN RStrip(SubSeq(s, 1, Len(s) - 1))
  ELSE s

\* str.strip()
Strip(s) == RStrip(LStrip(s))

\* s.startswith(prefix, i - 1): prefix stands in s at position i.
StartsWithAt(s, i, prefix) ==
  /\ i + Len(prefix) - 1 <= Len(s)
  /\ SubSeq(s, i, i + Len(prefix) - 1) = prefix

\* Python `marker in text`: substring containment.
Contains(text, marker) ==
  \E i \in 1..(Len(text) - Len(marker) + 1) : StartsWithAt(text, i, marker)

\* normalize_field: "" for None, otherwise stripped and lowercased.
normalize_field(value) ==
  IF value = None THEN "" ELSE Lower(Strip(value[1]))

(***************************************************************************)
(* CheckFailureClassifier                                                  *)
(***************************************************************************)

FAILURE_CONCLUSIONS == {"failure", "cancelled", "timed_out", "action_required"}

FAILURE_STATES == {"failure", "error", "cancelled", "timed_out", "action_required"}

FAILURE_BUCKETS == {"fail"}

\* is_failing without the fallback to the status field (line 547).
is_failing_no_status(check) ==
  LET conclusion == normalize_field(Get(check, "conclusion"))
      state == normalize_field(Get(check, "state"))
      bucket == normalize_field(Get(check, "bucket"))
  IN  IF conclusion \in FAILURE_CONCLUSIONS THEN TRUE
      ELSE IF state \in FAILURE_STATES THEN TRUE
      ELSE bucket \in FAILURE_BUCKETS

\* is_failing with the early returns of the code written as a disjunction
\* evaluated in the code's order.
is_failing(check) ==
  LET conclusion == normalize_field(Get(check, "conclusion"))
      state == normalize_field(PyOr(Get(check, "state"), Get(check, "status")))
      bucket == normalize_field(Get(check, "bucket"))
  IN  IF conclusion \in FAILURE_CONCLUSIONS THEN TRUE
      ELSE IF state \in FAILURE_STATES THEN TRUE
      ELSE bucket \in FAILURE_BUCKETS

(***************************************************************************)
(* Lists                                                                   *)
(***************************************************************************)

Min(a, b) == IF a < b THEN a ELSE b
Max(a, b) == IF a > b THEN a ELSE b

\* Python seq[start:end] for integers start, end (negative indices count
\* from the end, out-of-range indices are clipped).
PySlice(seq, start, end) ==
  LET n == Len(seq)
      lo == IF start < 0 THEN Max(0, n + start) ELSE Min(start, n)
      hi == IF end < 0 THEN Max(0, n + end) ELSE Min(end, n)
  IN  SubSeq(seq, lo + 1, hi)

\* Python seq[start:]
PySliceFrom(seq, start) == PySlice(seq, start, Len(seq))

\* Python seq[:end]
PySliceTo(seq, end) == PySlice(seq, 0, end)

\* sep.join(parts)
RECURSIVE Join(_, _)
Join(sep, parts) ==
  IF parts = <<>> THEN ""
  ELSE IF Len(parts) = 1 THEN parts[1]
  ELSE parts[1] \o sep \o Join(sep, Tail(parts))

\* The length of the first line of s: the characters before its first "\n".
RECURSIVE LineLength(_, _)
LineLength(s, i) ==
  IF i > Len(s) \/ SubSeq(s, i, i) = "\n" THEN i - 1
  ELSE LineLength(s, i + 1)

\* str.splitlines() for "\n" line ends: no empty last line after a final "\n".
RECURSIVE splitlines(_)
splitlines(s) ==
  IF s = "" THEN <<>>
  ELSE LET k == LineLength(s, 1)
       IN  <<SubSeq(s, 1, k)>>
           \o (IF k + 1 >= Len(s) THEN <<>> ELSE splitlines(SubSeq(s, k + 2, Len(s))))

(***************************************************************************)
(* FailureSnippetExtractor                                                 *)
(***************************************************************************)

FAILURE_MARKERS ==
  <<"error", "fail", "failed", "traceback", "exception", "assert", "panic",
    "fatal", "timeout", "segmentation fault">>

\* any(marker in lowered for marker in FAILURE_MARKERS)
HasFailureMarker(line) ==
  LET lowered == Lower(line)
  IN  \E k \in 1..Len(FAILURE_MARKERS) : Contains(lowered, FAILURE_MARKERS[k])

\* find_failure_index that returns the first line that holds a marker.
find_first_failure_index(lines) ==
  LET hits == {i \in 1..Len(lines) : HasFailureMarker(lines[i])}
  IN  IF hits = {} THEN None
      ELSE Some((CHOOSE i \in hits : \A j \in hits : i <= j) - 1)

\* find_failure_index: the 0-based index of the last line that holds a
\* marker (the scan runs from the end), None when no line holds one.
find_failure_index(lines) ==
  LET hits == {i \in 1..Len(lines) : HasFailureMarker(lines[i])}
  IN  IF hits = {} THEN None
      ELSE Some((CHOOSE i \in hits : \A j \in hits : j <= i) - 1)

\* extract_failure_snippet
extract_failure_snippet(log_text, max_lines, context) ==
  LET lines == splitlines(log_text)
      marker_index == find_failure_index(lines)
  IN  IF lines = <<>> THEN ""
      ELSE IF marker_index = None
      THEN Join("\n", PySliceFrom(lines, -max_lines))
      ELSE LET start == Max(0, marker_index[1] - context)
               end == Min(Len(lines), marker_index[1] + context)
               window == PySlice(lines, start, end)
           IN  IF Len(window) > max_lines
               THEN Join("\n", PySliceFrom(window, -max_lines))
               ELSE Join("\n", window)

\* tail_lines
tail_lines(text, max_lines) ==
  IF max_lines <= 0 THEN ""
  ELSE Join("\n", PySliceFrom(splitlines(text), -max_lines))

(***************************************************************************)
(* MergeStateClassifier                                                    *)
(***************************************************************************)

\* `not merge_status`: None or an empty dict.
NoMergeStatus(merge_status) ==
  merge_status = None \/ DOMAIN merge_status[1] = {}

\* A conflict finding made from mergeStateStatus alone.
ConflictOnDirtyOnly(merge_status) ==
  IF NoMergeStatus(merge_status) THEN None
  ELSE IF normalize_field(Get(merge_status[1], "mergeStateStatus")) # "dirty" THEN None
  ELSE Some([name |-> "Merge conflicts", status |-> "conflict"])

\* build_merge_conflict_result: the finding, or None.
build_merge_conflict_result(merge_status) ==
  IF NoMergeStatus(merge_status) THEN None
  ELSE LET ms == merge_status[1]
           mergeable == normalize_field(Get(ms, "mergeable"))
           merge_state == normalize_field(Get(ms, "mergeStateStatus"))
       IN  IF mergeable # "conflicting" /\ merge_state # "dirty" THEN None
           ELSE Some([name |-> "Merge conflicts",
                      status |-> "conflict",
                      detailsUrl |-> OrEmpty(Get(ms, "url")),
                      mergeable |-> Get(ms, "mergeable"),
                      mergeStateStatus |-> Get(ms, "mergeStateStatus"),
                      baseRefName |-> Get(ms, "baseRefName"),
                      headRefName |-> Get(ms, "headRefName"),
                      note |-> "PR has merge conflicts and cannot be merged as-is."])

\* build_update_branch_result: the finding, or None.
build_update_branch_result(merge_status) ==
  IF NoMergeStatus(merge_status) THEN None
  ELSE LET ms == merge_status[1]
           merge_state == normalize_field(Get(ms, "mergeStateStatus"))
           base_ref == Get(ms, "baseRefName")
           head_ref == Get(ms, "headRefName")
           base_label == IF Truthy(base_ref) THEN " '" \o base_ref[1] \o "'" ELSE ""
           head_label == IF Truthy(head_ref) THEN " '" \o head_ref[1] \o "'" ELSE ""
       IN  IF merge_state # "behind" THEN None
           ELSE Some([name |-> "Update branch required",
                      status |-> "behind",
                      detailsUrl |-> OrEmpty(Get(ms, "url")),
                      mergeable |-> Get(ms, "mergeable"),
                      mergeStateStatus |-> Get(ms, "mergeStateStatus"),
                      baseRefName |-> base_ref,
                      headRefName |-> head_ref,
                      note |-> "PR branch" \o head_label \o " is behind base" \o base_label
                               \o "; update the branch before re-running checks."])

(***************************************************************************)
(* Run and job identifiers of a details URL                                *)
(***************************************************************************)

IsDigit(c) == c \in {"0", "1", "2", "3", "4", "5", "6", "7", "8", "9"}

\* The longest run of digits of s that starts at position i ("" when the
\* character at i is no digit): what (\d+) matches there.
RECURSIVE DigitsAt(_, _)
DigitsAt(s, i) ==
  IF i <= Len(s) /\ IsDigit(SubSeq(s, i, i))
  THEN SubSeq(s, i, i) \o DigitsAt(s, i + 1)
  ELSE ""

\* The positions where re.search(prefix(\d+)) can match in s.
PrefixDigitMatches(s, prefix) ==
  {i \in 1..Len(s) :
     /\ StartsWithAt(s, i, prefix)
     /\ DigitsAt(s, i + Len(prefix)) # ""}

\* re.search(prefix(\d+), s).group(1), None without a match: the leftmost
\* match.
SearchPrefixDigits(s, prefix) ==
  LET at == PrefixDigitMatches(s, prefix)
  IN  IF at = {} THEN None
      ELSE LET i == CHOOSE k \in at : \A j \in at : k <= j
           IN  Some(DigitsAt(s, i + Len(prefix)))

\* extract_run_id
extract_run_id(url) ==
  IF url = "" THEN None
  ELSE LET match == SearchPrefixDigits(url, "/actions/runs/")
       IN  IF match # None THEN match ELSE SearchPrefixDigits(url, "/runs/")

\* re.search(r"/actions/runs/\d+/job/(\d+)", s).group(1), None without a
\* match.
SearchRunJob(s) ==
  LET pre == "/actions/runs/"
      JobAt(i) == i + Len(pre) + Len(DigitsAt(s, i + Len(pre)))
      at == {i \in PrefixDigitMatches(s, pre) :
               /\ StartsWithAt(s, JobAt(i), "/job/")
               /\ DigitsAt(s, JobAt(i) + 5) # ""}
  IN  IF at = {} THEN None
      ELSE LET i == CHOOSE k \in at : \A j \in at : k <= j
           IN  Some(DigitsAt(s, JobAt(i) + 5))

\* extract_job_id
extract_job_id(url) ==
  IF url = "" THEN None
  ELSE LET match == SearchRunJob(url)
       IN  IF match # None THEN match ELSE SearchPrefixDigits(url, "/job/")

(***************************************************************************)
(* LogRetriever: the parts without I/O                                     *)
(***************************************************************************)

PENDING_LOG_MARKERS ==
  <<"still in progress", "log will be available when it is complete">>

\* is_log_pending_message
is_log_pending_message(message) ==
  LET lowered == Lower(message)
  IN  \E k \in 1..Len(PENDING_LOG_MARKERS) : Contains(lowered, PENDING_LOG_MARKERS[k])

\* is_zip_payload: the payload starts with the two bytes "PK".
is_zip_payload(payload) == StartsWithAt(payload, 1, "PK")

\* `a or b or c` on strings.
FirstNonEmpty(a, b, c) == IF a # "" THEN a ELSE IF b # "" THEN b ELSE c

\* fetch_run_log, given what `gh run view <id> --log` answered: a record
\* (returncode, stdout, stderr). The result is <<log text, error>>.
fetch_run_log(answer) ==
  IF answer.returncode # 0
  THEN LET error == Strip(FirstNonEmpty(answer.stderr, answer.stdout, ""))
       IN  <<"", IF error # "" THEN error ELSE "gh run view failed">>
  ELSE <<answer.stdout, "">>

\* fetch_job_log, given what fetch_repo_slug returned (None or <<slug>>) and
\* what `gh api /repos/<slug>/actions/jobs/<id>/logs` answered. The payload
\* is ASCII, which bytes.decode leaves as it is. The result is
\* <<log text, error>>.
fetch_job_log(repo_slug, answer) ==
  IF ~Truthy(repo_slug)
  THEN <<"", "Error: unable to resolve repository name for job logs.">>
  ELSE IF answer.returncode # 0
  THEN LET message == Strip(FirstNonEmpty(answer.stderr, answer.stdout, ""))
       IN  <<"", IF message # "" THEN message ELSE "gh api job logs failed">>
  ELSE IF is_zip_payload(answer.stdout)
  THEN <<"", "Job logs returned a zip archive; unable to parse.">>
  ELSE <<answer.stdout, "">>

\* NeedsJobLog without the test for a pending marker.
NeedsJobLogOnAnyFailure(run_result, job_id) ==
  /\ run_result[2] # ""
  /\ Truthy(job_id)

\* ReturnAfterRunLog without lines 668-669: every failure is an error.
ReturnAfterRunLogNoPending(run_result) ==
  IF run_result[2] = "" THEN <<run_result[1], "", "ok">>
  ELSE <<"", run_result[2], "error">>

\* ReturnAfterJobLog with an empty job log reported as an error.
ReturnAfterJobLogEmptyIsError(run_result, job_result) ==
  IF job_result[1] # "" THEN <<job_result[1], "", "ok">>
  ELSE IF job_result[2] # "" /\ is_log_pending_message(job_result[2])
  THEN <<"", job_result[2], "pending">>
  ELSE IF job_result[2] # "" THEN <<"", job_result[2], "error">>
  ELSE <<"", run_result[2], "error">>

\* fetch_check_log after the run-level fetch returned <<log_text, log_error>>:
\* TRUE when the function goes on to fetch_job_log (line 658).
NeedsJobLog(run_result, job_id) ==
  /\ run_result[2] # ""
  /\ is_log_pending_message(run_result[2])
  /\ Truthy(job_id)

\* fetch_check_log's return value when it does not call fetch_job_log
\* (lines 655-656 and 668-671): <<log text, error, status>>.
ReturnAfterRunLog(run_result) ==
  IF run_result[2] = "" THEN <<run_result[1], "", "ok">>
  ELSE IF is_log_pending_message(run_result[2]) THEN <<"", run_result[2], "pending">>
  ELSE <<"", run_result[2], "error">>

\* fetch_check_log's return value after fetch_job_log returned
\* <<job_log, job_error>> (lines 660-666).
ReturnAfterJobLog(run_result, job_result) ==
  IF job_result[1] # "" THEN <<job_result[1], "", "ok">>
  ELSE IF job_result[2] # "" /\ is_log_pending_message(job_result[2])
  THEN <<"", job_result[2], "pending">>
  ELSE IF job_result[2] # "" THEN <<"", job_result[2], "error">>
  ELSE <<"", run_result[2], "pending">>

(***************************************************************************)
(* compact_text                                                            *)
(***************************************************************************)

\* The first word of s, which starts with a character that is no space.
RECURSIVE FirstWord(_)
FirstWord(s) ==
  IF s = "" \/ IsSpace(SubSeq(s, 1, 1)) THEN ""
  ELSE SubSeq(s, 1, 1) \o FirstWord(SubSeq(s, 2, Len(s)))

\* str.split(): the words between runs of whitespace.
RECURSIVE split(_)
split(s) ==
  LET t == LStrip(s)
  IN  IF t = "" THEN <<>>
      ELSE LET w == FirstWord(t)
           IN  <<w>> \o split(SubSeq(t, Len(w) + 1, Len(t)))

\* compact_text
compact_text(text, max_chars) ==
  IF text = "" THEN ""
  ELSE LET cleaned == Join(" ", split(text))
       IN  IF Len(cleaned) <= max_chars THEN cleaned
           ELSE RStrip(SubSeq(cleaned, 1, Max(0, max_chars - 3))) \o "..."

(***************************************************************************)
(* ReviewDecisionReducer                                                   *)
(***************************************************************************)

DEFAULT_MAX_COMMENT_BODY_CHARS == 400

\* str.upper() on one character.
UpperChar(c) ==
  CASE c = "a" -> "A" [] c = "b" -> "B" [] c = "c" -> "C" [] c = "d" -> "D"
    [] c = "e" -> "E" [] c = "f" -> "F" [] c = "g" -> "G" [] c = "h" -> "H"
    [] c = "i" -> "I" [] c = "j" -> "J" [] c = "k" -> "K" [] c = "l" -> "L"
    [] c = "m" -> "M" [] c = "n" -> "N" [] c = "o" -> "O" [] c = "p" -> "P"
    [] c = "q" -> "Q" [] c = "r" -> "R" [] c = "s" -> "S" [] c = "t" -> "T"
    [] c = "u" -> "U" [] c = "v" -> "V" [] c = "w" -> "W" [] c = "x" -> "X"
    [] c = "y" -> "Y" [] c = "z" -> "Z" [] OTHER -> c

\* str.upper()
RECURSIVE Upper(_)
Upper(s) ==
  IF s = "" THEN ""
  ELSE UpperChar(SubSeq(s, 1, 1)) \o Upper(SubSeq(s, 2, Len(s)))

\* Printable ASCII characters in code point order (the double quote, the
\* backslash and the backquote are left out).
CodePointOrder ==
  " !#$%&'()*+,-./0123456789:;<=>?@ABCDEFGHIJKLMNOPQRSTUVWXYZ[]^_abcdefghijklmnopqrstuvwxyz{|}~"

\* The rank of a character in code point order.
Ord(c) == CHOOSE i \in 1..Len(CodePointOrder) : SubSeq(CodePointOrder, i, i) = c

\* Python a > b on strings: by the first code point that differs, a proper
\* prefix being the smaller.
StrGreater(a, b) ==
  LET n == Min(Len(a), Len(b))
      diff == {i \in 1..n : SubSeq(a, i, i) # SubSeq(b, i, i)}
  IN  IF diff = {} THEN Len(a) > Len(b)
      ELSE LET i == CHOOSE k \in diff : \A j \in diff : k <= j
           IN  Ord(SubSeq(a, i, i)) > Ord(SubSeq(b, i, i))

\* Lines 372-377: a review is dropped when it has no login, is the PR
\* author's, or has no state or the state pending.
ReviewSurvives(review, author_key) ==
  LET user_login == OrEmpty(Get(review, "login"))
      state == normalize_field(Get(review, "state"))
  IN  /\ user_login # ""
      /\ Lower(user_login) # author_key
      /\ state # ""
      /\ state # "pending"

\* Lines 378-386: the item kept for a surviving review.
ReviewItem(review) ==
  [author |-> OrEmpty(Get(review, "login")),
   state |-> Upper(normalize_field(Get(review, "state"))),
   submittedAt |-> OrEmpty(Get(review, "submitted_at")),
   url |-> OrEmpty(PyOr(Get(review, "html_url"), Get(review, "url"))),
   body |-> compact_text(OrEmpty(Get(review, "body")), DEFAULT_MAX_COMMENT_BODY_CHARS)]

\* Lines 368-386: review_items.
RECURSIVE ReviewItems(_, _)
ReviewItems(reviews_data, author_key) ==
  IF reviews_data = <<>> THEN <<>>
  ELSE (IF ReviewSurvives(Head(reviews_data), author_key)
        THEN <<ReviewItem(Head(reviews_data))>> ELSE <<>>)
       \o ReviewItems(Tail(reviews_data), author_key)

\* latest_by_reviewer that keeps every item: no review replaces another.
KeepEveryReview(items, latest) == latest \o items

\* Lines 388-395: latest_by_reviewer after the loop over items, as the
\* sequence of its values in insertion order (a dict keeps the place of a
\* key whose value is replaced).
RECURSIVE LatestByReviewer(_, _)
LatestByReviewer(items, latest) ==
  IF items = <<>> THEN latest
  ELSE LET item == Head(items)
           reviewer_key == Lower(item.author)
           at == {i \in 1..Len(latest) : Lower(latest[i].author) = reviewer_key}
       IN  IF reviewer_key = "" THEN LatestByReviewer(Tail(items), latest)
           ELSE IF at = {}
           THEN LatestByReviewer(Tail(items), Append(latest, item))
           ELSE LET i == CHOOSE k \in at : TRUE
                IN  IF StrGreater(item.submittedAt, latest[i].submittedAt)
                    THEN LatestByReviewer(Tail(items), [latest EXCEPT ![i] = item])
                    ELSE LatestByReviewer(Tail(items), latest)

\* Lines 397-401: sorted(..., key=submittedAt, reverse=True), which is
\* stable: entries with equal keys keep their order.
RECURSIVE SortBySubmittedDesc(_)
SortBySubmittedDesc(entries) ==
  IF entries = <<>> THEN <<>>
  ELSE LET rest == SortBySubmittedDesc(SubSeq(entries, 1, Len(entries) - 1))
           x == entries[Len(entries)]
           before == {i \in 1..Len(rest) : StrGreater(x.submittedAt, rest[i].submittedAt)}
           k == IF before = {} THEN Len(rest) + 1
                ELSE CHOOSE i \in before : \A j \in before : i <= j
       IN  SubSeq(rest, 1, k - 1) \o <<x>> \o SubSeq(rest, k, Len(rest))

\* The comment filter without the test against the PR author.
CommentSurvivesSelfToo(comment, author_key) ==
  OrEmpty(Get(comment, "login")) # ""

\* Lines 407-409 and 425-427: a comment is dropped when it has no login or
\* is the PR author's.
CommentSurvives(comment, author_key) ==
  LET user_login == OrEmpty(Get(comment, "login"))
  IN  user_login # "" /\ Lower(user_login) # author_key

\* Lines 403-435: review_comments and issue_comments.
RECURSIVE CommentItems(_, _)
CommentItems(comments_data, author_key) ==
  IF comments_data = <<>> THEN <<>>
  ELSE (IF CommentSurvives(Head(comments_data), author_key)
        THEN <<[author |-> OrEmpty(Get(Head(comments_data), "login")),
                createdAt |-> OrEmpty(Get(Head(comments_data), "created_at")),
                url |-> OrEmpty(PyOr(Get(Head(comments_data), "html_url"),
                                     Get(Head(comments_data), "url"))),
                body |-> compact_text(OrEmpty(Get(Head(comments_data), "body")),
                                      DEFAULT_MAX_COMMENT_BODY_CHARS)]>>
        ELSE <<>>)
       \o CommentItems(Tail(comments_data), author_key)

\* Lines 437-446: the decision over latest_reviews.
Decision(latest_reviews) ==
  LET states == [i \in 1..Len(latest_reviews) |->
                   normalize_field(Some(latest_reviews[i].state))]
      AnyState(st) == \E i \in 1..Len(states) : states[i] = st
  IN  IF AnyState("changes_requested") THEN "CHANGES_REQUESTED"
      ELSE IF AnyState("approved") THEN "APPROVED"
      ELSE IF AnyState("commented") THEN "COMMENTED"
      ELSE IF latest_reviews # <<>> THEN "REVIEWED"
      ELSE "PENDING"

\* action_required without summary_comments.
ActionRequiredWithoutSummary(decision, latest_reviews, review_comments, issue_comments) ==
  \/ decision = "CHANGES_REQUESTED"
  \/ review_comments # <<>>
  \/ issue_comments # <<>>

\* Lines 448-457: action_required.
ActionRequired(decision, latest_reviews, review_comments, issue_comments) ==
  LET summary_comments ==
        \E i \in 1..Len(latest_reviews) :
          /\ normalize_field(Some(latest_reviews[i].state)) = "commented"
          /\ latest_reviews[i].body # ""
  IN  \/ decision = "CHANGES_REQUESTED"
      \/ summary_comments
      \/ review_comments # <<>>
      \/ issue_comments # <<>>

\* The answer of gh_api_get_json to one list query is a record (error,
\* data); lines 337-339: an error leaves the empty list.
ListOrEmpty(answer) == IF answer.error # "" THEN <<>> ELSE answer.data

\* Lines 332-364: the errors collected from the three list queries.
ReviewErrors(gh) ==
  (IF gh.reviews.error # "" THEN <<"Reviews: " \o gh.reviews.error>> ELSE <<>>)
  \o (IF gh.review_comments.error # ""
      THEN <<"Review comments: " \o gh.review_comments.error>> ELSE <<>>)
  \o (IF gh.issue_comments.error # ""
      THEN <<"Issue comments: " \o gh.issue_comments.error>> ELSE <<>>)

\* Lines 479-493: the notes on lists cut to max_review_comments entries.
TruncatedNotes(latest_reviews, review_comments, issue_comments, max_review_comments) ==
  (IF Len(latest_reviews) > max_review_comments
   THEN <<"Showing " \o ToString(max_review_comments) \o " of "
          \o ToString(Len(latest_reviews)) \o " latest reviews.">> ELSE <<>>)
  \o (IF Len(review_comments) > max_review_comments
      THEN <<"Showing " \o ToString(max_review_comments) \o " of "
             \o ToString(Len(review_comments)) \o " inline review comments.">> ELSE <<>>)
  \o (IF Len(issue_comments) > max_review_comments
      THEN <<"Showing " \o ToString(max_review_comments) \o " of "
             \o ToString(Len(issue_comments)) \o " issue comments.">> ELSE <<>>)

\* analyze_reviews, given what the collaborator answered: gh.repo_slug is
\* fetch_repo_slug's result, gh.pr the answer to the PR query (error, login,
\* html_url) and gh.reviews, gh.review_comments, gh.issue_comments the
\* answers to the three list queries. The result is
\* <<review_result or None, review_requires_response>>.
analyze_reviews(gh, max_review_comments) ==
  IF ~Truthy(gh.repo_slug) THEN <<None, FALSE>>
  ELSE IF gh.pr.error # ""
  THEN <<Some([name |-> "Reviewer comments",
               status |-> "review_unavailable",
               detailsUrl |-> "",
               error |-> gh.pr.error]), FALSE>>
  ELSE
    LET author_key == Lower(gh.pr.login)
        errors == ReviewErrors(gh)
        review_items == ReviewItems(ListOrEmpty(gh.reviews), author_key)
        latest_reviews == SortBySubmittedDesc(LatestByReviewer(review_items, <<>>))
        review_comments == CommentItems(ListOrEmpty(gh.review_comments), author_key)
        issue_comments == CommentItems(ListOrEmpty(gh.issue_comments), author_key)
        decision == Decision(latest_reviews)
        action_required ==
          ActionRequired(decision, latest_reviews, review_comments, issue_comments)
        truncated_notes ==
          TruncatedNotes(latest_reviews, review_comments, issue_comments,
                         max_review_comments)
        review_result ==
          [name |-> "Reviewer comments",
           status |-> "review",
           detailsUrl |-> gh.pr.html_url,
           reviewDecision |-> decision,
           reviewActionRequired |-> action_required,
           reviewCounts |-> [reviews |-> Len(review_items),
                             reviewers |-> Len(latest_reviews),
                             reviewComments |-> Len(review_comments),
                             issueComments |-> Len(issue_comments)],
           latestReviews |-> PySliceTo(latest_reviews, max_review_comments),
           reviewComments |-> PySliceTo(review_comments, max_review_comments),
           issueComments |-> PySliceTo(issue_comments, max_review_comments),
           error |-> IF errors # <<>> THEN Some(Join("; ", errors)) ELSE None,
           note |-> IF truncated_notes # <<>> THEN Some(Join(" ", truncated_notes))
                    ELSE None]
    IN  <<Some(review_result), action_required>>

(***************************************************************************)
(* analyze_check: the parts without I/O                                    *)
(***************************************************************************)

\* Line 560: url = check.get("detailsUrl") or check.get("link") or "".
CheckUrl(check) == OrEmpty(PyOr(Get(check, "detailsUrl"), Get(check, "link")))

\* Lines 563-568: base. A key the code leaves out of the finding holds None;
\* every key it sets holds <<value>>.
BaseFinding(check) ==
  [name |-> OrEmpty(Get(check, "name")),
   detailsUrl |-> CheckUrl(check),
   runId |-> extract_run_id(CheckUrl(check)),
   jobId |-> extract_job_id(CheckUrl(check)),
   status |-> "",
   note |-> None,
   error |-> None,
   run |-> None,
   logSnippet |-> None,
   logTail |-> None]

\* Lines 570-573: the finding of a check without a run id.
ExternalFinding(check) ==
  [BaseFinding(check) EXCEPT
     !.status = "external",
     !.note = Some("No GitHub Actions run id detected in detailsUrl.")]

\* Lines 582-601: the finding built from fetch_run_metadata's result
\* (None or <<dict>>) and fetch_check_log's result <<text, error, status>>.
CheckFinding(check, meta, log, max_lines, context) ==
  IF log[3] = "pending"
  THEN [BaseFinding(check) EXCEPT
          !.status = "log_pending",
          !.note = Some(IF log[2] # "" THEN log[2] ELSE "Logs are not available yet."),
          !.run = meta]
  ELSE IF log[2] # ""
  THEN [BaseFinding(check) EXCEPT
          !.status = "log_unavailable",
          !.error = Some(log[2]),
          !.run = meta]
  ELSE [BaseFinding(check) EXCEPT
          !.status = "ok",
          !.run = IF meta = None THEN Some(<<>>) ELSE meta,
          !.logSnippet = Some(extract_failure_snippet(log[1], max_lines, context)),
          !.logTail = Some(tail_lines(log[1], max_lines))]

(***************************************************************************)
(* State                                                                   *)
(***************************************************************************)

VARIABLES
  pc,            \* where main is: the call it makes next
  args,          \* parse_args' result, None before it ran
  merge_status,  \* main's merge_status: None or <<dict>>
  checks,        \* main's checks
  failing,       \* main's failing
  results,       \* main's results
  has_blocking,  \* main's has_blocking
  exit_code,     \* main's return value, None while it runs
  idx,           \* the place in `for check in failing`, from 1
  metadata,      \* analyze_check's metadata
  run_log,       \* fetch_check_log: fetch_run_log's result, None before the call
  job_log,       \* fetch_check_log: fetch_job_log's result, None before the call
  log_ret,       \* analyze_check: fetch_check_log's result, None before it returns
  calls,         \* the fetches fetch_check_log made for the check at idx, with their answers
  call,          \* a single function applied on its own: its name and arguments
  ret            \* the value that function returned, None before it ran

vars ==
  <<pc, args, merge_status, checks, failing, results, has_blocking, exit_code,
    idx, metadata, run_log, job_log, log_ret, calls, call, ret>>

mainVars ==
  <<pc, args, merge_status, checks, failing, results, has_blocking, exit_code,
    idx, metadata, run_log, job_log, log_ret, calls>>

(***************************************************************************)
(* What the collaborators (git, gh) can answer                             *)
(***************************************************************************)

\* The longest check list the collaborator returns.
MaxChecks == 2

\* All sequences over S of length at most n.
SeqsUpTo(S, n) == UNION {[1..k -> S] : k \in 0..n}

\* The command lines: --max-lines, --context, --max-review-comments.
ArgChoices ==
  {[max_lines |-> 0, context |-> 0, max_review_comments |-> 0],
   [max_lines |-> 2, context |-> 3, max_review_comments |-> 1]}

\* fetch_merge_status' results: None (the query failed or was no JSON
\* object) or the object, with both field sets of lines 238 and 244.
MergeAnswers ==
  {None,
   Some([mergeable |-> Some("MERGEABLE"), mergeStateStatus |-> Some("CLEAN"),
         url |-> Some("https://github.com/o/r/pull/5"),
         baseRefName |-> Some("main"), headRefName |-> Some("feature")]),
   Some([mergeable |-> Some("CONFLICTING"), mergeStateStatus |-> Some("DIRTY"),
         url |-> Some("https://github.com/o/r/pull/5"),
         baseRefName |-> Some("main"), headRefName |-> Some("feature")]),
   Some([mergeable |-> Some("CONFLICTING"), mergeStateStatus |-> Some("BEHIND"),
         url |-> Some("https://github.com/o/r/pull/5"),
         baseRefName |-> Some("main"), headRefName |-> Some("feature")]),
   Some([mergeable |-> Some("MERGEABLE"), mergeStateStatus |-> Some("BEHIND"),
         url |-> Some("https://github.com/o/r/pull/5")])}

\* Check records in the rich shape (line 499) and the fallback shape (line
\* 508): one that passes, one failing outside GitHub Actions, one failing
\* with a run URL, one failing with a job URL.
CheckAtoms ==
  {[name |-> Some("lint"), state |-> Some("SUCCESS"), conclusion |-> Some("success"),
    detailsUrl |-> Some("https://github.com/o/r/actions/runs/11/job/31")],
   [name |-> Some("deploy"), state |-> Some("FAILURE"), bucket |-> Some("fail"),
    link |-> Some("https://ci.example.com/build/7")],
   [name |-> Some("test"), state |-> Some("COMPLETED"), conclusion |-> Some("FAILURE"),
    detailsUrl |-> Some("https://github.com/o/r/actions/runs/12")],
   [name |-> Some("build"), state |-> Some("COMPLETED"), conclusion |-> Some("timed_out"),
    detailsUrl |-> Some("https://github.com/o/r/actions/runs/12/job/34")]}

\* fetch_checks' results: None (lines 518-539) or the list.
ChecksAnswers == {None} \cup {Some(c) : c \in SeqsUpTo(CheckAtoms, MaxChecks)}

\* fetch_run_metadata's results.
MetadataAnswers ==
  {None, Some([conclusion |-> "failure", workflowName |-> "CI", headBranch |-> "feature"])}

RunLogText == "setup\nstep A\nAssertionError: x != y\ncleanup\ndone\n"
JobLogText == "job start\nFAILED test_a\npost step"

\* Answers of `gh run view <id> --log`.
RunLogAnswers ==
  {[returncode |-> 0, stdout |-> RunLogText, stderr |-> ""],
   [returncode |-> 0, stdout |-> "", stderr |-> ""],
   [returncode |-> 1, stdout |-> "",
    stderr |-> "run 12 is still in progress; logs will be available when it is complete\n"],
   [returncode |-> 1, stdout |-> "Log will be available when it is complete", stderr |-> ""],
   [returncode |-> 1, stdout |-> "", stderr |-> "HTTP 404: Not Found\n"],
   [returncode |-> 1, stdout |-> "", stderr |-> ""]}

\* The answers a whole run draws from: a log, a pending run, a failure.
MainRunLogAnswers ==
  {a \in RunLogAnswers :
     \/ a.stdout = RunLogText
     \/ a.stderr \in {"run 12 is still in progress; logs will be available when it is complete\n",
                      "HTTP 404: Not Found\n"}}

\* fetch_repo_slug's results.
SlugAnswers == {None, Some("o/r")}

\* Answers of `gh api /repos/<slug>/actions/jobs/<id>/logs`.
JobLogAnswers ==
  {[returncode |-> 0, stdout |-> JobLogText, stderr |-> ""],
   [returncode |-> 0, stdout |-> "", stderr |-> ""],
   [returncode |-> 0, stdout |-> "PK\t\tjob.txt", stderr |-> ""],
   [returncode |-> 1, stdout |-> "", stderr |-> "job 34 is Still In Progress"],
   [returncode |-> 1, stdout |-> "", stderr |-> "HTTP 410: Gone"],
   [returncode |-> 1, stdout |-> "", stderr |-> ""]}

\* What fetch_job_log can be answered: the repository slug and the job log.
JobLogWorlds == SlugAnswers \X JobLogAnswers

\* The answers a whole run draws from: a log, a failure.
MainJobLogWorlds ==
  {w \in JobLogWorlds :
     /\ w[1] # None
     /\ w[2].stdout = JobLogText \/ w[2].stderr = "HTTP 410: Gone"}

\* An answer of gh_api_get_json to a list query.
OkList(data) == [error |-> "", data |-> data]
FailedList(message) == [error |-> message, data |-> <<>>]

PrOk == [error |-> "", login |-> "Octo", html_url |-> "https://github.com/o/r/pull/5"]
PrFailed == [error |-> "HTTP 404: Not Found", login |-> "", html_url |-> ""]

Review(login, state, submitted_at, body) ==
  [login |-> Some(login), state |-> Some(state), submitted_at |-> Some(submitted_at),
   body |-> Some(body), html_url |-> Some("https://github.com/o/r/pull/5#r")]

Comment(login, body) ==
  [login |-> Some(login), created_at |-> Some("2024-05-01T10:00:00Z"),
   body |-> Some(body), html_url |-> Some("https://github.com/o/r/pull/5#c")]

T1 == "2024-05-01T10:00:00Z"
T2 == "2024-05-02T09:30:00Z"

\* What analyze_reviews can be answered in a whole run.
MainReviewAnswers ==
  {[repo_slug |-> None, pr |-> PrOk, reviews |-> OkList(<<>>),
    review_comments |-> OkList(<<>>), issue_comments |-> OkList(<<>>)],
   [repo_slug |-> Some("o/r"), pr |-> PrFailed, reviews |-> OkList(<<>>),
    review_comments |-> OkList(<<>>), issue_comments |-> OkList(<<>>)],
   [repo_slug |-> Some("o/r"), pr |-> PrOk, reviews |-> OkList(<<>>),
    review_comments |-> OkList(<<>>), issue_comments |-> OkList(<<>>)],
   [repo_slug |-> Some("o/r"), pr |-> PrOk,
    reviews |-> OkList(<<Review("bob", "APPROVED", T1, "")>>),
    review_comments |-> FailedList("HTTP 502"),
    issue_comments |-> OkList(<<Comment("octo", "rebased")>>)],
   [repo_slug |-> Some("o/r"), pr |-> PrOk,
    reviews |-> OkList(<<Review("bob", "APPROVED", T1, ""),
                         Review("bob", "CHANGES_REQUESTED", T2, "please fix")>>),
    review_comments |-> OkList(<<Comment("alice", "nit"), Comment("bob", "typo")>>),
    issue_comments |-> OkList(<<>>)]}

(***************************************************************************)
(* main                                                                    *)
(***************************************************************************)

\* No function is applied on its own during a run of main.
NoCall == call = None /\ ret = None

\* The state before main runs.
Init ==
  /\ pc = "find_git_root"
  /\ args = None
  /\ merge_status = None
  /\ checks = <<>>
  /\ failing = <<>>
  /\ results = <<>>
  /\ has_blocking = FALSE
  /\ exit_code = None
  /\ idx = 1
  /\ metadata = None
  /\ run_log = None
  /\ job_log = None
  /\ log_ret = None
  /\ calls = <<>>
  /\ NoCall

\* `return 1` before any result exists (lines 108, 111, 115, 123).
Abort ==
  /\ pc' = "aborted"
  /\ exit_code' = Some(1)

\* Lines 104-108: parse_args and find_git_root.
FindGitRoot ==
  /\ pc = "find_git_root"
  /\ \E a \in ArgChoices, found \in BOOLEAN :
       /\ args' = Some(a)
       /\ IF found THEN pc' = "ensure_gh_available" /\ exit_code' = exit_code
          ELSE Abort
  /\ UNCHANGED <<merge_status, checks, failing, results, has_blocking, idx,
                 metadata, run_log, job_log, log_ret, calls, call, ret>>

\* Lines 110-111: ensure_gh_available.
EnsureGhAvailable ==
  /\ pc = "ensure_gh_available"
  /\ \E available \in BOOLEAN :
       IF available THEN pc' = "resolve_pr" /\ exit_code' = exit_code
       ELSE Abort
  /\ UNCHANGED <<args, merge_status, checks, failing, results, has_blocking, idx,
                 metadata, run_log, job_log, log_ret, calls, call, ret>>

\* Lines 113-115: resolve_pr.
ResolvePr ==
  /\ pc = "resolve_pr"
  /\ \E resolved \in BOOLEAN :
       IF resolved THEN pc' = "fetch_merge_status" /\ exit_code' = exit_code
       ELSE Abort
  /\ UNCHANGED <<args, merge_status, checks, failing, results, has_blocking, idx,
                 metadata, run_log, job_log, log_ret, calls, call, ret>>

\* Line 117: fetch_merge_status.
FetchMergeStatus ==
  /\ pc = "fetch_merge_status"
  /\ \E answer \in MergeAnswers : merge_status' = answer
  /\ pc' = "fetch_checks"
  /\ UNCHANGED <<args, checks, failing, results, has_blocking, exit_code, idx,
                 metadata, run_log, job_log, log_ret, calls, call, ret>>

\* Lines 118-119 and 127-134: results and has_blocking after the merge
\* findings were appended.
MergeFindings(ms) == build_merge_conflict_result(ms) \o build_update_branch_result(ms)

\* Lines 121-134: fetch_checks, the failing checks and the merge findings.
FetchChecks ==
  /\ pc = "fetch_checks"
  /\ \E answer \in ChecksAnswers :
       IF answer = None
       THEN /\ Abort
            /\ UNCHANGED <<checks, failing, results, has_blocking>>
       ELSE /\ checks' = answer[1]
            /\ failing' = SelectSeq(answer[1], is_failing)
            /\ results' = MergeFindings(merge_status)
            /\ has_blocking' = (MergeFindings(merge_status) # <<>>)
            /\ pc' = "analyze_reviews"
            /\ exit_code' = exit_code
  /\ UNCHANGED <<args, merge_status, idx, metadata, run_log, job_log, log_ret,
                 calls, call, ret>>

\* ReviewBlocks without the test of line 143.
ReviewBlocksAlways(review_result, review_requires_response) ==
  review_result # None

\* Lines 141-144: the review makes the run blocking when there is a review
\* result and it requires a response.
ReviewBlocks(review_result, review_requires_response) ==
  review_result # None /\ review_requires_response

\* Lines 136-144: analyze_reviews and its finding.
AnalyzeReviews ==
  /\ pc = "analyze_reviews"
  /\ \E gh \in MainReviewAnswers :
       LET r == analyze_reviews(gh, Max(1, args[1].max_review_comments))
       IN  /\ results' = results \o r[1]
           /\ has_blocking' = (has_blocking \/ ReviewBlocks(r[1], r[2]))
  /\ idx' = 1
  /\ pc' = "analyze_check"
  /\ UNCHANGED <<args, merge_status, checks, failing, exit_code, metadata, run_log,
                 job_log, log_ret, calls, call, ret>>

\* Lines 146-148 and 560-575: the next failing check. Without a run id
\* its finding is appended at once; otherwise fetch_run_metadata is called.
AnalyzeCheckBegin(metadataAnswers) ==
  /\ pc = "analyze_check"
  /\ idx <= Len(failing)
  /\ has_blocking' = TRUE
  /\ IF extract_run_id(CheckUrl(failing[idx])) = None
     THEN /\ results' = Append(results, ExternalFinding(failing[idx]))
          /\ idx' = idx + 1
          /\ UNCHANGED <<pc, metadata>>
     ELSE /\ \E answer \in metadataAnswers : metadata' = answer
          /\ pc' = "fetch_run_log"
          /\ UNCHANGED <<results, idx>>
  /\ UNCHANGED <<args, merge_status, checks, failing, exit_code, run_log, job_log,
                 log_ret, calls, call, ret>>

\* Lines 654-656 and 668-671: fetch_run_log, and fetch_check_log's return
\* unless it goes on to the job log.
FetchRunLog(answers) ==
  /\ pc = "fetch_run_log"
  /\ \E answer \in answers :
       LET r == fetch_run_log(answer)
       IN  /\ run_log' = Some(r)
           /\ calls' = Append(calls, [fn |-> "fetch_run_log", answer |-> answer])
           /\ IF NeedsJobLog(r, extract_job_id(CheckUrl(failing[idx])))
              THEN pc' = "fetch_job_log" /\ log_ret' = log_ret
              ELSE pc' = "build_finding" /\ log_ret' = Some(ReturnAfterRunLog(r))

  /\ UNCHANGED <<args, merge_status, checks, failing, results, has_blocking,
                 exit_code, idx, metadata, job_log, call, ret>>

\* Lines 658-666: fetch_job_log and fetch_check_log's return after it.
FetchJobLog(worlds) ==
  /\ pc = "fetch_job_log"
  /\ \E w \in worlds :
       LET j == fetch_job_log(w[1], w[2])
       IN  /\ job_log' = Some(j)
           /\ calls' = Append(calls, [fn |-> "fetch_job_log", slug |-> w[1], answer |-> w[2]])
           /\ log_ret' = Some(ReturnAfterJobLog(run_log[1], j))
  /\ pc' = "build_finding"
  /\ UNCHANGED <<args, merge_status, checks, failing, results, has_blocking,
                 exit_code, idx, metadata, run_log, call, ret>>

\* AnalyzeCheckEnd that leaves the loop after a check whose log was not
\* retrieved.
AnalyzeCheckEndStopsOnError ==
  /\ pc = "build_finding"
  /\ results' = Append(results,
                       CheckFinding(failing[idx], metadata, log_ret[1],
                                    Max(1, args[1].max_lines), Max(1, args[1].context)))
  /\ idx' = IF log_ret[1][3] = "ok" THEN idx + 1 ELSE Len(failing) + 1
  /\ pc' = "analyze_check"
  /\ metadata' = None
  /\ run_log' = None
  /\ job_log' = None
  /\ log_ret' = None
  /\ calls' = <<>>
  /\ UNCHANGED <<args, merge_status, checks, failing, has_blocking, exit_code,
                 call, ret>>

\* Lines 148-155 and 582-601: the finding of the check is appended and the
\* loop goes on.
AnalyzeCheckEnd ==
  /\ pc = "build_finding"
  /\ results' = Append(results,
                       CheckFinding(failing[idx], metadata, log_ret[1],
                                    Max(1, args[1].max_lines), Max(1, args[1].context)))
  /\ idx' = idx + 1
  /\ pc' = "analyze_check"
  /\ metadata' = None
  /\ run_log' = None
  /\ job_log' = None
  /\ log_ret' = None
  /\ calls' = <<>>
  /\ UNCHANGED <<args, merge_status, checks, failing, has_blocking, exit_code,
                 call, ret>>

\* Lines 157-167: the results are rendered and main returns.
Finish ==
  /\ pc = "analyze_check"
  /\ idx > Len(failing)
  /\ pc' = "done"
  /\ exit_code' = Some(IF has_blocking THEN 1 ELSE 0)
  /\ UNCHANGED <<args, merge_status, checks, failing, results, has_blocking, idx,
                 metadata, run_log, job_log, log_ret, calls, call, ret>>

Next ==
  \/ FindGitRoot
  \/ EnsureGhAvailable
  \/ ResolvePr
  \/ FetchMergeStatus
  \/ FetchChecks
  \/ AnalyzeReviews
  \/ AnalyzeCheckBegin(MetadataAnswers)
  \/ FetchRunLog(MainRunLogAnswers)
  \/ FetchJobLog(MainJobLogWorlds)
  \/ AnalyzeCheckEnd
  \/ Finish

\* A run of main.
Spec == Init /\ [][Next]_vars

(***************************************************************************)
(* The log retrieval of one failing check                                  *)
(***************************************************************************)

\* The checks of CheckAtoms that fail.
FailingAtoms == {c \in CheckAtoms : is_failing(c)}

\* main at the head of its loop over one failing check, with no merge and
\* no review finding: the state Spec reaches when fetch_merge_status
\* returned None, fetch_checks that one check and fetch_repo_slug None.
LogInit ==
  /\ pc = "analyze_check"
  /\ args \in {Some(a) : a \in ArgChoices}
  /\ merge_status = None
  /\ checks \in {<<c>> : c \in FailingAtoms}
  /\ failing = checks
  /\ results = <<>>
  /\ has_blocking = FALSE
  /\ exit_code = None
  /\ idx = 1
  /\ metadata = None
  /\ run_log = None
  /\ job_log = None
  /\ log_ret = None
  /\ calls = <<>>
  /\ NoCall

LogNext ==
  \/ AnalyzeCheckBegin(MetadataAnswers)
  \/ FetchRunLog(RunLogAnswers)
  \/ FetchJobLog(JobLogWorlds)
  \/ AnalyzeCheckEnd
  \/ Finish

\* The analysis of one failing check under every answer of the collaborator.
SpecLog == LogInit /\ [][LogNext]_vars

(***************************************************************************)
(* Functions applied on their own                                          *)
(***************************************************************************)

\* main does not run.
MainIdle ==
  /\ pc = "idle"
  /\ args = None
  /\ merge_status = None
  /\ checks = <<>>
  /\ failing = <<>>
  /\ results = <<>>
  /\ has_blocking = FALSE
  /\ exit_code = None
  /\ idx = 1
  /\ metadata = None
  /\ run_log = None
  /\ job_log = None
  /\ log_ret = None
  /\ calls = <<>>

\* A dict with the given optional values: a key whose value is "absent" is
\* left out, a key whose value is None holds a JSON null.
DictOf(keys, value) ==
  [k \in {x \in keys : value[x] # "absent"} |-> value[k]]

ConclusionValues ==
  {"absent", None, Some(""), Some("success"), Some("FAILURE"), Some("Cancelled"),
   Some("timed_out"), Some("ACTION_REQUIRED"), Some("error"), Some("fail"),
   Some(" failure\n")}

StateValues ==
  {"absent", None, Some(""), Some("SUCCESS"), Some("Failure"), Some("ERROR"),
   Some("cancelled"), Some("TIMED_OUT"), Some("action_required"), Some("fail"),
   Some("pending")}

StatusValues ==
  {"absent", Some("completed"), Some("FAILURE"), Some("error"), Some("Timed_Out")}

BucketValues ==
  {"absent", Some("pass"), Some("FAIL"), Some("fail"), Some("failure")}

\* Check records with every combination of the four fields.
CheckRecords ==
  {DictOf({"conclusion", "state", "status", "bucket"},
          [conclusion |-> c, state |-> s, status |-> t, bucket |-> b]) :
     c \in ConclusionValues, s \in StateValues, t \in StatusValues, b \in BucketValues}

FailingInit ==
  /\ MainIdle
  /\ call \in {[fn |-> "is_failing", check |-> c] : c \in CheckRecords}
  /\ ret = None

\* is_failing(check) is called and returns.
ApplyIsFailing ==
  /\ call.fn = "is_failing"
  /\ ret = None
  /\ ret' = Some(is_failing(call.check))
  /\ UNCHANGED <<mainVars, call>>

\* is_failing on every check record.
SpecFailing == FailingInit /\ [][ApplyIsFailing]_vars

\* The longest log, in lines, and the largest max_lines and context given to
\* extract_failure_snippet.
MaxLogLines == 3
MaxLinesArg == 3
MaxContextArg == 2

\* Log lines: two without a failure marker, two with one ("error", "failed"
\* in upper case).
LogLineAtoms == {"ok", "done", "Error: x", "1 FAILED"}

\* Logs of up to MaxLogLines lines, with and without a final line end.
LogTexts ==
  {Join("\n", ls) \o end : ls \in SeqsUpTo(LogLineAtoms, MaxLogLines), end \in {"", "\n"}}

\* A log of 20 lines whose line 12 (counted from 1) is the only one with a
\* failure marker: the log of 200 lines with the marker at line 120, at a
\* tenth of its size.
ScenarioLog ==
  Join("\n", [i \in 1..20 |->
                IF i = 12 THEN "AssertionError: x != y" ELSE "line " \o ToString(i)])

SnippetInit ==
  /\ MainIdle
  /\ call \in {[fn |-> "extract_failure_snippet", log_text |-> t, max_lines |-> m,
                context |-> c] :
                 t \in LogTexts, m \in 0..MaxLinesArg, c \in 0..MaxContextArg}
              \cup {[fn |-> "extract_failure_snippet", log_text |-> ScenarioLog,
                     max_lines |-> 16, context |-> 3]}
  /\ ret = None

\* extract_failure_snippet(log_text, max_lines, context) is called and returns.
ApplyExtractFailureSnippet ==
  /\ call.fn = "extract_failure_snippet"
  /\ ret = None
  /\ ret' = Some(extract_failure_snippet(call.log_text, call.max_lines, call.context))
  /\ UNCHANGED <<mainVars, call>>

\* extract_failure_snippet on every log, max_lines and context.
SpecSnippet == SnippetInit /\ [][ApplyExtractFailureSnippet]_vars

\* The longest review list given to analyze_reviews.
MaxReviews == 3

\* Reviews by two reviewers (alice, also spelled Alice, and bob) at two
\* times, by the PR author (octo: PrOk's login is Octo) and without a state.
ReviewAtoms ==
  {Review("alice", "APPROVED", T1, ""),
   Review("alice", "CHANGES_REQUESTED", T1, ""),
   Review("alice", "COMMENTED", T1, "fix it"),
   Review("alice", "APPROVED", T2, ""),
   Review("Alice", "changes_requested", T2, "see notes"),
   Review("alice", "COMMENTED", T2, ""),
   Review("alice", "DISMISSED", T2, ""),
   Review("alice", "PENDING", T2, "draft"),
   Review("bob", "APPROVED", T1, ""),
   Review("bob", "COMMENTED", T1, "  "),
   Review("octo", "CHANGES_REQUESTED", T2, ""),
   Review("octo", "COMMENTED", T2, "fix it"),
   [Review("bob", "", T2, "") EXCEPT !.state = None]}

\* The answers to the two comment queries: <<inline review comments, issue
\* comments>>.
CommentWorlds ==
  {<<OkList(<<>>), OkList(<<>>)>>,
   <<OkList(<<Comment("alice", "nit")>>), OkList(<<>>)>>,
   <<OkList(<<>>), OkList(<<Comment("bob", "ping")>>)>>,
   <<OkList(<<Comment("octo", "done")>>), OkList(<<Comment("Octo", "rebased")>>)>>,
   <<OkList(<<[Comment("", "ghost") EXCEPT !.login = None]>>), OkList(<<>>)>>}

\* What the collaborator answers analyze_reviews: the slug and the PR are
\* found, the three lists hold reviews and comments.
ReviewAnswers ==
  {[repo_slug |-> Some("o/r"), pr |-> PrOk, reviews |-> OkList(rs),
    review_comments |-> w[1], issue_comments |-> w[2]] :
     rs \in SeqsUpTo(ReviewAtoms, MaxReviews), w \in CommentWorlds}

ReviewInit ==
  /\ MainIdle
  /\ call \in {[fn |-> "analyze_reviews", gh |-> g, max_review_comments |-> 1] :
                 g \in ReviewAnswers}
  /\ ret = None

\* analyze_reviews(pr_value, repo_root, max_review_comments) is called and
\* returns.
ApplyAnalyzeReviews ==
  /\ call.fn = "analyze_reviews"
  /\ ret = None
  /\ ret' = Some(analyze_reviews(call.gh, call.max_review_comments))
  /\ UNCHANGED <<mainVars, call>>

\* analyze_reviews on every review list and comment world.
SpecReview == ReviewInit /\ [][ApplyAnalyzeReviews]_vars

MergeableValues ==
  {"absent", None, Some(""), Some("MERGEABLE"), Some("UNKNOWN"), Some("CONFLICTING"),
   Some("conflicting"), Some("Conflicting"), Some(" conflicting\n")}

MergeStateValues ==
  {"absent", None, Some(""), Some("CLEAN"), Some("BLOCKED"), Some("DIRTY"),
   Some("dirty"), Some("Dirty"), Some("BEHIND"), Some("behind")}

RefNameValues == {"absent", None, Some("main")}

\* Merge metadata records with every combination of the fields; the record
\* without any field is the empty dict.
MergeRecords ==
  {DictOf({"mergeable", "mergeStateStatus", "baseRefName", "url"},
          [mergeable |-> m, mergeStateStatus |-> st, baseRefName |-> b, url |-> u]) :
     m \in MergeableValues, st \in MergeStateValues, b \in RefNameValues,
     u \in {"absent", Some("https://github.com/o/r/pull/5")}}

MergeInit ==
  /\ MainIdle
  /\ call \in {[fn |-> "build_merge_conflict_result", merge_status |-> ms] :
                 ms \in {None} \cup {Some(rec) : rec \in MergeRecords}}
  /\ ret = None

\* build_merge_conflict_result(merge_status) is called and returns.
ApplyBuildMergeConflictResult ==
  /\ call.fn = "build_merge_conflict_result"
  /\ ret = None
  /\ ret' = Some(build_merge_conflict_result(call.merge_status))
  /\ UNCHANGED <<mainVars, call>>

\* build_merge_conflict_result on every merge metadata record.
SpecMerge == MergeInit /\ [][ApplyBuildMergeConflictResult]_vars

\* The most parts a text given to compact_text is made of, and the largest
\* max_chars.
MaxTextParts == 4
MaxCharsArg == 8

\* Words and runs of white space.
TextParts == {"ab", "cdefgh", " ", " \n"}

RECURSIVE Concat(_)
Concat(parts) == IF parts = <<>> THEN "" ELSE Head(parts) \o Concat(Tail(parts))

CompactInit ==
  /\ MainIdle
  /\ call \in {[fn |-> "compact_text", text |-> Concat(ps), max_chars |-> m] :
                 ps \in SeqsUpTo(TextParts, MaxTextParts), m \in 0..MaxCharsArg}
  /\ ret = None

\* compact_text(text, max_chars) is called and returns.
ApplyCompactText ==
  /\ call.fn = "compact_text"
  /\ ret = None
  /\ ret' = Some(compact_text(call.text, call.max_chars))
  /\ UNCHANGED <<mainVars, call>>

\* compact_text on every text and max_chars.
SpecCompact == CompactInit /\ [][ApplyCompactText]_vars

(***************************************************************************)
(* Properties                                                              *)
(***************************************************************************)

\* A field in lower case, the empty string when it is absent or null.
Lowered(opt) == IF opt = None THEN "" ELSE Lower(opt[1])

\* The state field, or the status field when state is absent or empty.
StateOrStatus(check) ==
  IF Get(check, "state") = None \/ Get(check, "state") = Some("")
  THEN Get(check, "status")
  ELSE Get(check, "state")

\* The fields of the record are present in some letter case, with no
\* white space around the value, or absent.
PlainFields(check) ==
  \A k \in DOMAIN check : check[k] = None \/ Strip(check[k][1]) = check[k][1]

\* What C1 says is_failing returns.
FailingByFields(check) ==
  \/ Lowered(Get(check, "conclusion"))
       \in {"failure", "cancelled", "timed_out", "action_required"}
  \/ Lowered(StateOrStatus(check))
       \in {"failure", "error", "cancelled", "timed_out", "action_required"}
  \/ Lowered(Get(check, "bucket")) = "fail"

\* C1: for every check record whose fields conclusion, state, status and
\* bucket are each present (in any letter case) or absent, is_failing returns
\* TRUE iff the lowercased conclusion is a failure conclusion, or the
\* lowercased state (the status when state is absent or empty) is a failure
\* state, or the lowercased bucket is fail; no field has to be present.
C1_IsFailingIff ==
  (ret # None /\ call.fn = "is_failing" /\ PlainFields(call.check))
    => ret[1] = FailingByFields(call.check)

\* is_failing returned TRUE for a record that holds only a status field.
C1_Witness ==
  /\ ret = Some(TRUE)
  /\ call.fn = "is_failing"
  /\ call.check = [status |-> Some("Timed_Out")]

\* Some finding of results has the status st.
HasFinding(st) == \E i \in 1..Len(results) : results[i].status = st

\* One of the four blocking conditions of C2 is present.
BlockingPresent ==
  \/ HasFinding("conflict")
  \/ HasFinding("behind")
  \/ \E i \in 1..Len(results) :
       results[i].status = "review" /\ results[i].reviewActionRequired
  \/ \E i \in 1..Len(checks) : is_failing(checks[i])

\* C2: when main returns without aborting, the exit status is 1 iff a merge
\* conflict finding, a behind-branch finding, a review finding that requires
\* action or a failing check is present, and 0 otherwise; a failing check
\* makes it 1 whatever became of its log (ok, pending, error, no run id).
C2_ExitStatus ==
  pc = "done" =>
    /\ exit_code \in {Some(0), Some(1)}
    /\ exit_code = Some(1) <=> BlockingPresent
    /\ \A i \in 1..Len(results) :
         results[i].status \in {"ok", "log_pending", "log_unavailable", "external"}
           => exit_code = Some(1)

\* main returned 1 with a failing check whose log is pending as the only
\* blocking condition.
C2_Witness ==
  /\ pc = "done"
  /\ exit_code = Some(1)
  /\ ~HasFinding("conflict")
  /\ ~HasFinding("behind")
  /\ ~HasFinding("review")
  /\ HasFinding("log_pending")

\* The text holds one of the two pending markers, in any letter case.
HasPendingMarker(text) ==
  \/ Contains(Lower(text), "still in progress")
  \/ Contains(Lower(text), "log will be available when it is complete")

\* The error text of a failed `gh run view --log` or `gh api` call.
ErrorText(answer, default) ==
  LET t == Strip(IF answer.stderr # "" THEN answer.stderr ELSE answer.stdout)
  IN  IF t = "" THEN default ELSE t

\* The job id of the check that is being analysed.
CurrentJobId == extract_job_id(CheckUrl(failing[idx]))

\* fetch_check_log has returned for the check that is being analysed.
LogReturned == pc = "build_finding" /\ log_ret # None /\ calls # <<>>

\* C3: when the run-level fetch fails with a pending marker in its error
\* text and there is no job id, fetch_check_log returns pending with that
\* text; when it fails without a pending marker, fetch_check_log returns
\* error with that text, with or without a job id.
C3_RunFailure ==
  (LogReturned /\ calls[1].answer.returncode # 0) =>
    LET reason == ErrorText(calls[1].answer, "gh run view failed")
    IN  /\ (HasPendingMarker(reason) /\ CurrentJobId = None)
             => log_ret[1] = <<"", reason, "pending">>
        /\ ~HasPendingMarker(reason) => log_ret[1] = <<"", reason, "error">>

\* fetch_check_log returned pending after a failed run-level fetch of a
\* check without a job id.
C3_Witness ==
  /\ LogReturned
  /\ calls[1].answer.returncode # 0
  /\ CurrentJobId = None
  /\ log_ret[1][3] = "pending"

\* The names of the fetches made so far for the current check.
CallNames == [i \in 1..Len(calls) |-> calls[i].fn]

\* C4: the run-level fetch is made exactly once and before any job-level
\* fetch; the job-level fetch is made at most once, and iff the run-level
\* fetch failed with a pending marker and a job id is available; a run-level
\* success gives ok with the run log and no job-level fetch; fetch_check_log
\* ends in exactly one of ok, pending, error.
C4_FetchOrder ==
  /\ CallNames \in {<<>>, <<"fetch_run_log">>, <<"fetch_run_log", "fetch_job_log">>}
  /\ pc = "fetch_job_log" => (CallNames = <<"fetch_run_log">> /\ log_ret = None)
  /\ pc = "build_finding" => LogReturned
  /\ LogReturned =>
       LET run == calls[1].answer
       IN  /\ Len(calls) = 2 <=>
                /\ run.returncode # 0
                /\ HasPendingMarker(ErrorText(run, "gh run view failed"))
                /\ CurrentJobId # None
           /\ run.returncode = 0 =>
                (log_ret[1] = <<run.stdout, "", "ok">> /\ Len(calls) = 1)
           /\ log_ret[1][3] \in {"ok", "pending", "error"}

\* fetch_check_log returned after a run-level and a job-level fetch.
C4_Witness ==
  /\ LogReturned
  /\ CallNames = <<"fetch_run_log", "fetch_job_log">>

\* The job-level fetch failed, and the error text it failed with: no
\* repository slug, a failed call, or a zip archive as the payload.
JobFailure(c) ==
  IF c.slug = None \/ c.slug = Some("")
  THEN Some("Error: unable to resolve repository name for job logs.")
  ELSE IF c.answer.returncode # 0
  THEN Some(ErrorText(c.answer, "gh api job logs failed"))
  ELSE IF StartsWithAt(c.answer.stdout, 1, "PK")
  THEN Some("Job logs returned a zip archive; unable to parse.")
  ELSE None

\* C5: after a run-level failure with a pending marker and with a job id,
\* the job-level fetch decides: a non-empty job log gives ok with that log, a
\* failure with a pending marker gives pending with the job error, a failure
\* without one (a zip archive among them) gives error with the job error, and
\* an empty job log gives pending with the run-level error text.
C5_JobDecides ==
  (LogReturned /\ Len(calls) = 2) =>
    LET job == calls[2]
        failure == JobFailure(job)
        run_reason == ErrorText(calls[1].answer, "gh run view failed")
    IN  IF failure # None
        THEN IF HasPendingMarker(failure[1])
             THEN log_ret[1] = <<"", failure[1], "pending">>
             ELSE log_ret[1] = <<"", failure[1], "error">>
        ELSE IF job.answer.stdout # ""
        THEN log_ret[1] = <<job.answer.stdout, "", "ok">>
        ELSE log_ret[1] = <<"", run_reason, "pending">>

\* fetch_check_log returned pending with the run-level reason after the
\* job-level fetch answered with an empty log.
C5_Witness ==
  /\ LogReturned
  /\ Len(calls) = 2
  /\ calls[2].slug # None
  /\ calls[2].answer.returncode = 0
  /\ calls[2].answer.stdout = ""
  /\ log_ret[1][3] = "pending"


\* The lines of the log extract_failure_snippet was called with.
LogLines == splitlines(call.log_text)

\* No line of the log holds a failure marker.
NoMarkerInLog == \A i \in 1..Len(LogLines) : ~HasFailureMarker(LogLines[i])

\* The last n lines of lines, all of them when there are fewer.
LastLines(lines, n) == SubSeq(lines, Len(lines) - Min(n, Len(lines)) + 1, Len(lines))

SnippetReturned == call.fn = "extract_failure_snippet" /\ ret # None

\* C6: for a log in which no line holds a failure marker and any
\* max_lines >= 0 and context, extract_failure_snippet returns exactly the
\* last max_lines lines of the log (the whole log when it has fewer), and
\* the empty snippet when max_lines = 0.
C6_TailWhenNoMarker ==
  (SnippetReturned /\ NoMarkerInLog) =>
     /\ ret[1] = Join("\n", LastLines(LogLines, call.max_lines))
     /\ (call.max_lines = 0 => ret[1] = "")

\* A log of two lines without a marker and max_lines = 0: the whole log is
\* returned.
C6_Witness ==
  /\ SnippetReturned
  /\ call.log_text = "ok\ndone"
  /\ call.max_lines = 0
  /\ ret = Some("ok\ndone")

\* C7: for a log that holds a failure marker, any max_lines >= 0 and any
\* context >= 0, the snippet extract_failure_snippet returns has at most
\* max_lines lines.
C7_SnippetWithinCap ==
  (SnippetReturned /\ ~NoMarkerInLog) =>
     Len(splitlines(ret[1])) <= call.max_lines

\* The marker on the last of two lines, max_lines = 0 and context = 1: both
\* lines are returned.
C7_Witness ==
  /\ SnippetReturned
  /\ call.log_text = "ok\nError: x"
  /\ call.max_lines = 0
  /\ call.context = 1
  /\ ret = Some("ok\nError: x")

ReviewReturned == call.fn = "analyze_reviews" /\ ret # None

\* The reviews analyze_reviews was given, and what it returned.
GivenReviews == call.gh.reviews.data
ReturnedDecision == ret[1][1][1].reviewDecision
ReturnedActionRequired == ret[1][2]

\* The login of a review or comment, "" when there is none.
LoginOf(entry) == IF Get(entry, "login") = None THEN "" ELSE Get(entry, "login")[1]

\* An entry written by the PR author, compared without regard to case.
SelfAuthored(entry) == Lower(LoginOf(entry)) = Lower(call.gh.pr.login)

\* The reviews given, each reduced to what the decision depends on: the
\* reviewer (the login in lower case), whether it is the PR author's, the
\* state in lower case and the place of the submission time.
ReviewFacts ==
  [i \in 1..Len(GivenReviews) |->
     [reviewer |-> Lower(LoginOf(GivenReviews[i])),
      self |-> SelfAuthored(GivenReviews[i]),
      state |-> Lowered(Get(GivenReviews[i], "state")),
      time |-> IF Get(GivenReviews[i], "submitted_at") = Some(T1) THEN 1 ELSE 2]]

\* A review that counts: it has a reviewer who is not the PR author, and a
\* state that is neither empty nor pending.
Surviving(rv, i) ==
  rv[i].reviewer # "" /\ ~rv[i].self /\ rv[i].state \notin {"", "pending"}

\* No surviving review of the same reviewer is strictly later.
MostRecent(rv, i) ==
  /\ Surviving(rv, i)
  /\ ~\E j \in 1..Len(rv) :
        Surviving(rv, j) /\ rv[j].reviewer = rv[i].reviewer /\ rv[j].time > rv[i].time

\* The one review per reviewer the decision is computed from: a most recent
\* one, and the first in input order among those submitted at the same time.
LatestOfReviewer(rv, i) ==
  /\ MostRecent(rv, i)
  /\ ~\E j \in 1..(i - 1) :
        Surviving(rv, j) /\ rv[j].reviewer = rv[i].reviewer /\ rv[j].time = rv[i].time

\* No reviewer has two surviving reviews submitted at the same time.
NoTimeTies(rv) ==
  \A i, j \in 1..Len(rv) :
    (i # j /\ Surviving(rv, i) /\ Surviving(rv, j) /\ rv[i].reviewer = rv[j].reviewer)
       => rv[i].time # rv[j].time

\* The decision over a set of (lower case) states.
Precedence(states) ==
  IF "changes_requested" \in states THEN "CHANGES_REQUESTED"
  ELSE IF "approved" \in states THEN "APPROVED"
  ELSE IF "commented" \in states THEN "COMMENTED"
  ELSE IF states # {} THEN "REVIEWED"
  ELSE "PENDING"

\* C8: the review decision is computed only from each reviewer's most
\* recently submitted surviving review, whatever the order of the review
\* list: a review is ignored when the same reviewer has a surviving review
\* that is strictly later, and the decision over the reviews left is
\* CHANGES_REQUESTED, else APPROVED, else COMMENTED, else REVIEWED when there
\* is one, else PENDING. Of reviews of one reviewer submitted at the same
\* time the first in input order is the one that counts.
C8_LatestPerReviewer ==
  ReviewReturned =>
    LET rv == ReviewFacts
        latest == {i \in 1..Len(rv) : LatestOfReviewer(rv, i)}
    IN  /\ NoTimeTies(rv) =>
              ReturnedDecision =
                Precedence({rv[i].state : i \in {k \in 1..Len(rv) : MostRecent(rv, k)}})
        /\ ReturnedDecision = Precedence({rv[i].state : i \in latest})
        /\ \A i, j \in latest : rv[i].reviewer = rv[j].reviewer => i = j

\* The later review comes first in the list: [A approved t2, A
\* changes_requested t1] gives APPROVED.
C8_Witness ==
  /\ ReviewReturned
  /\ GivenReviews = <<Review("alice", "APPROVED", T2, ""),
                      Review("alice", "CHANGES_REQUESTED", T1, "")>>
  /\ ReturnedDecision = "APPROVED"

\* A list without the entries written by the PR author.
WithoutSelf(answer) ==
  [answer EXCEPT !.data = SelectSeq(answer.data, LAMBDA e : ~SelfAuthored(e))]

\* What analyze_reviews was given, without the reviews and comments written
\* by the PR author.
GivenWithoutSelf ==
  [call.gh EXCEPT !.reviews = WithoutSelf(call.gh.reviews),
                  !.review_comments = WithoutSelf(call.gh.review_comments),
                  !.issue_comments = WithoutSelf(call.gh.issue_comments)]

AllSelfAuthored ==
  /\ \A i \in 1..Len(GivenReviews) : SelfAuthored(GivenReviews[i])
  /\ \A i \in 1..Len(call.gh.review_comments.data) :
        SelfAuthored(call.gh.review_comments.data[i])
  /\ \A i \in 1..Len(call.gh.issue_comments.data) :
        SelfAuthored(call.gh.issue_comments.data[i])

\* C9: reviews, inline review comments and issue comments written by the PR
\* author (compared without regard to case) never influence the result: when
\* every review and comment is the PR author's the decision is PENDING and
\* action_required is false, and the decision and action_required of any
\* input are those of the input without its self-authored entries.
C9_SelfAuthoredIgnored ==
  ReviewReturned =>
    /\ AllSelfAuthored => (ReturnedDecision = "PENDING" /\ ~ReturnedActionRequired)
    /\ LET without == analyze_reviews(GivenWithoutSelf, call.max_review_comments)
       IN  /\ ReturnedDecision = without[1][1].reviewDecision
           /\ ReturnedActionRequired = without[2]

\* The PR author requests changes and comments twice, alice approves: the
\* decision is APPROVED and no action is required.
C9_Witness ==
  /\ ReviewReturned
  /\ GivenReviews = <<Review("octo", "CHANGES_REQUESTED", T2, ""),
                      Review("alice", "APPROVED", T2, "")>>
  /\ call.gh.review_comments.data = <<Comment("octo", "done")>>
  /\ call.gh.issue_comments.data = <<Comment("Octo", "rebased")>>
  /\ ReturnedDecision = "APPROVED"
  /\ ~ReturnedActionRequired

\* The body holds a character that is no white space.
HasBodyText(review) ==
  LET body == IF Get(review, "body") = None THEN "" ELSE Get(review, "body")[1]
  IN  \E k \in 1..Len(body) : ~IsSpace(SubSeq(body, k, k))

\* A comment that survives the author filter.
SurvivingComments(answer) ==
  SelectSeq(answer.data, LAMBDA e : LoginOf(e) # "" /\ ~SelfAuthored(e))

\* C10: action_required is true iff the decision is CHANGES_REQUESTED, or a
\* latest-per-reviewer review in state commented has body text, or an inline
\* review comment survives the author filter, or an issue comment survives
\* it; the finding carries the same value.
C10_ActionRequiredIff ==
  ReviewReturned =>
    LET rv == ReviewFacts
    IN  /\ ReturnedActionRequired <=>
              \/ ReturnedDecision = "CHANGES_REQUESTED"
              \/ \E i \in 1..Len(rv) :
                    /\ LatestOfReviewer(rv, i)
                    /\ rv[i].state = "commented"
                    /\ HasBodyText(GivenReviews[i])
              \/ SurvivingComments(call.gh.review_comments) # <<>>
              \/ SurvivingComments(call.gh.issue_comments) # <<>>
        /\ ret[1][1][1].reviewActionRequired = ReturnedActionRequired

\* One commented review with body text and no comments: action is required.
C10_Witness ==
  /\ ReviewReturned
  /\ GivenReviews = <<Review("alice", "COMMENTED", T1, "fix it")>>
  /\ call.gh.review_comments.data = <<>>
  /\ call.gh.issue_comments.data = <<>>
  /\ ReturnedDecision = "COMMENTED"
  /\ ReturnedActionRequired

\* A review finding made when no review, inline review comment or issue
\* comment survived the filters.
EmptyReviewFinding(finding) ==
  /\ finding.status = "review"
  /\ finding.reviewCounts.reviews = 0
  /\ finding.reviewCounts.reviewComments = 0
  /\ finding.reviewCounts.issueComments = 0

\* C11: the review result is in main's results only when some feedback
\* exists: when no review, inline review comment or issue comment survives
\* the filters (decision PENDING, action_required false), results holds no
\* review finding.
C11_NoFindingWithoutFeedback ==
  \A i \in 1..Len(results) : ~EmptyReviewFinding(results[i])

\* main returned with a review finding of decision PENDING, without action
\* required and with nothing counted.
C11_Witness ==
  /\ pc = "done"
  /\ \E i \in 1..Len(results) :
       /\ EmptyReviewFinding(results[i])
       /\ results[i].reviewDecision = "PENDING"
       /\ ~results[i].reviewActionRequired

\* A field of the merge metadata, "" when it is absent or null, in lower
\* case.
MergeField(ms, key) == IF ms = None THEN "" ELSE Lowered(Get(ms[1], key))

\* The two fields are absent, null or hold a value without white space
\* around it.
PlainMergeFields(ms) ==
  ms # None =>
    \A key \in {"mergeable", "mergeStateStatus"} :
      Get(ms[1], key) = None \/ Get(ms[1], key)[1] = Strip(Get(ms[1], key)[1])

\* C12: the merge-conflict finding is emitted iff mergeable equals
\* conflicting or mergeStateStatus equals dirty, compared without regard to
\* case, an absent or null field counting as the empty string; every
\* record, whatever fields it lacks, gets an answer (the finding or None).
C12_ConflictIff ==
  (call.fn = "build_merge_conflict_result" /\ ret # None
     /\ PlainMergeFields(call.merge_status)) =>
    /\ ret[1] # None <=>
          \/ MergeField(call.merge_status, "mergeable") = "conflicting"
          \/ MergeField(call.merge_status, "mergeStateStatus") = "dirty"
    /\ ret[1] # None => ret[1][1].status = "conflict"

\* mergeable is Conflicting and mergeStateStatus is absent: the finding is
\* made.
C12_Witness ==
  /\ call.fn = "build_merge_conflict_result"
  /\ call.merge_status # None
  /\ DOMAIN call.merge_status[1] = {"mergeable"}
  /\ call.merge_status[1].mergeable = Some("Conflicting")
  /\ ret # None
  /\ ret[1] # None
  /\ ret[1][1].status = "conflict"

\* The merge-conflict condition on main's merge_status.
ConflictCondition ==
  \/ MergeField(merge_status, "mergeable") = "conflicting"
  \/ MergeField(merge_status, "mergeStateStatus") = "dirty"

\* C13: merge classification makes at most one finding per PR: results never
\* holds both a merge-conflict finding and a behind-branch finding, and when
\* main returns the behind-branch finding is there iff the merge-conflict
\* condition does not hold and mergeStateStatus equals behind.
C13_AtMostOneMergeFinding ==
  /\ ~(HasFinding("conflict") /\ HasFinding("behind"))
  /\ pc = "done" =>
       (HasFinding("behind") <=>
          (~ConflictCondition /\ MergeField(merge_status, "mergeStateStatus") = "behind"))

\* mergeable is CONFLICTING and mergeStateStatus is BEHIND, and main
\* returned with both findings, the conflict finding first.
C13_Witness ==
  /\ pc = "done"
  /\ MergeField(merge_status, "mergeable") = "conflicting"
  /\ MergeField(merge_status, "mergeStateStatus") = "behind"
  /\ Len(results) >= 2
  /\ results[1].status = "conflict"
  /\ results[2].status = "behind"

\* A finding made for a check, and the check findings of results in order.
IsCheckFinding(finding) ==
  finding.status \in {"ok", "log_pending", "log_unavailable", "external"}

CheckFindings == SelectSeq(results, IsCheckFinding)

\* The failing checks in the order of the check list fetch_checks returned.
FailingInOrder == SelectSeq(checks, FailingByFields)

\* The finding is the one of the check: it carries its name and URL.
FindingOf(finding, check) ==
  /\ Get(check, "name") = Some(finding.name)
  /\ finding.detailsUrl \in {OrEmpty(Get(check, "detailsUrl")), OrEmpty(Get(check, "link"))}

\* C14: in every run that obtained the PR and the check list, results holds
\* exactly one check finding per failing check, in the order of the failing
\* checks in the check list and after all merge and review findings; while
\* the checks are analysed there is one finding for each check already done,
\* whatever became of its log, and the loop is at a check of the list or
\* past its end with what its next step needs: a log that is pending or
\* unavailable is recorded in the finding of its check and the checks after
\* it are analysed.
C14_OneFindingPerFailingCheck ==
  /\ pc \in {"analyze_check", "fetch_run_log", "fetch_job_log", "build_finding", "done"} =>
       /\ Len(CheckFindings) = IF pc = "done" THEN Len(FailingInOrder) ELSE idx - 1
       /\ Len(CheckFindings) <= Len(FailingInOrder)
       /\ \A k \in 1..Len(CheckFindings) : FindingOf(CheckFindings[k], FailingInOrder[k])
       /\ \A i, j \in 1..Len(results) :
            (i < j /\ IsCheckFinding(results[i])) => IsCheckFinding(results[j])
  /\ pc = "analyze_check" => idx \in 1..(Len(failing) + 1)
  /\ pc \in {"fetch_run_log", "fetch_job_log", "build_finding"} => idx \in 1..Len(failing)
  /\ pc = "fetch_job_log" => run_log # None
  /\ pc = "build_finding" => log_ret # None

\* main returned after two failing checks: the log of the first was
\* unavailable, the second has its finding after it, and a review finding
\* comes before both.
C14_Witness ==
  /\ pc = "done"
  /\ Len(results) = 3
  /\ results[1].status = "review"
  /\ results[2].status = "log_unavailable"
  /\ results[2].name = "test"
  /\ results[3].status = "ok"
  /\ results[3].name = "build"

\* C15: a collaborator call that fails never aborts the run, except when the
\* PR cannot be resolved: once resolve_pr has returned the PR (and before
\* it, only the steps up to resolve_pr can abort), no failure of the
\* merge-status query, the check-list query, the review and comment
\* queries, the run metadata or the log fetches makes main abort.
C15_NoAbortAfterPrResolved ==
  [][pc' = "aborted" => pc \in {"find_git_root", "ensure_gh_available", "resolve_pr"}]_vars

\* main aborted after the PR was resolved and its merge status fetched: the
\* check-list query failed.
C15_Witness ==
  /\ pc = "aborted"
  /\ exit_code = Some(1)
  /\ merge_status # None
  /\ results = <<>>

\* The text with every run of white space collapsed to one blank and none
\* at its ends.
Collapsed(text) == Join(" ", split(text))

\* C16: compact_text returns the collapsed text unchanged when its length is
\* at most the budget, and otherwise a string of exactly budget characters
\* that ends in "...".
C16_ExactBudget ==
  (call.fn = "compact_text" /\ ret # None) =>
    LET cleaned == Collapsed(call.text)
    IN  IF Len(cleaned) <= call.max_chars
        THEN ret[1] = cleaned
        ELSE /\ Len(ret[1]) = call.max_chars
             /\ Len(ret[1]) >= 3
             /\ SubSeq(ret[1], Len(ret[1]) - 2, Len(ret[1])) = "..."

\* "ab cdefgh" with a budget of 6: the cut "ab " loses its blank and the
\* result has 5 characters.
C16_Witness ==
  /\ call.fn = "compact_text"
  /\ Collapsed(call.text) = "ab cdefgh"
  /\ call.max_chars = 6
  /\ ret = Some("ab...")

\* The lines of the logs that hold a failure marker, as they are written.
MarkerLines == {"Error: x", "1 FAILED", "AssertionError: x != y"}

\* The places (from 1) of the lines that hold a failure marker.
MarkerPlaces(lines) == {k \in 1..Len(lines) : lines[k] \in MarkerLines}

\* The lines at the 0-based indices [max(0, i - context), min(n, i + context))
\* of an n-line log, cut to their last max_lines when there are more.
WindowAround(lines, i, max_lines, context) ==
  LET lo == Max(0, i - context)
      hi == Min(Len(lines), i + context)
      window == SubSeq(lines, lo + 1, hi)
  IN  IF Len(window) > max_lines THEN LastLines(window, max_lines) ELSE window

C18_MarkerLineKept ==
  (SnippetReturned /\ call.max_lines >= 1 /\ call.context >= 1) =>
    LET lines == LogLines
        places == MarkerPlaces(lines)
        last == CHOOSE k \in places : \A j \in places : j <= k
        snippet == splitlines(ret[1])
    IN  (lines # <<>> /\ places # {}) =>
          \E k \in 1..Len(snippet) : snippet[k] = lines[last]

\* The marker on the first of three lines, context = 2 and max_lines = 1:
\* the window is the first two lines and its last line, without the marker,
\* is returned.
C18_Witness ==
  /\ SnippetReturned
  /\ call.log_text = "Error: x\nok\ndone"
  /\ call.max_lines = 1
  /\ call.context = 2
  /\ ret = Some("ok")

====
